---- MODULE Spec2Model ----
(***************************************************************************)
(* A model of tools/video_splitter.py (duration parsing, segmentation,     *)
(* materialization, run report) and of the temp-file-then-replace sequence *)
(* of tools/audio_trim.py.                                                 *)
(*                                                                         *)
(* Strings are sequences of one-character strings.  The probe's float      *)
(* result is a count of half seconds, so that math.floor has a remainder   *)
(* to drop.                                                                *)
(***************************************************************************)
EXTENDS Integers, Sequences, FiniteSets, TLC

VARIABLES
    \* ---- parse_duration_to_seconds
    expr,        \* the argument s
    parsed,      \* <<>> before the call, then <<[ok, val]>>
    \* ---- split_video / main
    probe,       \* what ffprobe reports for each source file, in half seconds
    dirs,        \* directories that exist
    media,       \* part_NNN.mp4 files that exist: <<root, index, content>>
    meta,        \* info.json files that exist:    <<root, index, info>>
    pc,          \* "idle" | "loop" | "return" | "exit" | "raise"
    rp,          \* the parameters of the current call
    i,           \* the loop variable of split_video
    total,       \* total_seconds_int
    num_parts,   \* num_parts
    created,     \* created
    calls,       \* indices handed to ffmpeg by the current call, in order
    segs,        \* info dictionaries computed by the current call, in order
    outcome,     \* how the current call ended
    runs,        \* number of calls started
    prev,        \* parameters and outcome of the previous call
    start,       \* dirs, media, meta as they were when the current call began
    \* ---- trim_audio
    tpc,         \* position in trim_audio
    targs,       \* its arguments and what load_audio_any returned
    tfs,         \* content at input_path, tmp_path, old_path
    tfailed      \* the steps that raised

parseVars == <<expr, parsed>>
splitVars == <<probe, dirs, media, meta, pc, rp, i, total, num_parts, created, calls,
               segs, outcome, runs, prev, start>>
trimVars  == <<tpc, targs, tfs, tfailed>>
vars == <<parseVars, splitVars, trimVars>>

--------------------------------------------------------------------------
(* Bounds *)

\* longest duration expression drawn from Alphabet
MaxLen == 6
\* largest probe result, in half seconds
MaxHalves == 7
\* number of split_video / main calls in one behaviour
MaxRuns == 2
\* longest audio returned by load_audio_any, in samples
MaxSamples == 2

--------------------------------------------------------------------------
(* Python string helpers *)

Digits == {"0", "1", "2", "3", "4", "5", "6", "7", "8", "9"}

DigitVal(c) ==
    CASE c = "0" -> 0 [] c = "1" -> 1 [] c = "2" -> 2 [] c = "3" -> 3
      [] c = "4" -> 4 [] c = "5" -> 5 [] c = "6" -> 6 [] c = "7" -> 7
      [] c = "8" -> 8 [] c = "9" -> 9

Whitespace == {" "}

LowerMap == ("S" :> "s") @@ ("M" :> "m") @@ ("H" :> "h") @@ ("X" :> "x")

\* str.lower
Lower(s) == [k \in 1..Len(s) |-> IF s[k] \in DOMAIN LowerMap THEN LowerMap[s[k]] ELSE s[k]]

RECURSIVE LStrip(_)
LStrip(s) == IF s # <<>> /\ Head(s) \in Whitespace THEN LStrip(Tail(s)) ELSE s

RECURSIVE RStrip(_)
RStrip(s) ==
    IF s # <<>> /\ s[Len(s)] \in Whitespace THEN RStrip(SubSeq(s, 1, Len(s) - 1)) ELSE s

\* str.strip
Strip(s) == RStrip(LStrip(s))

\* str.endswith
EndsWith(s, suf) ==
    /\ Len(s) >= Len(suf)
    /\ SubSeq(s, Len(s) - Len(suf) + 1, Len(s)) = suf

\* str.isdigit
IsDigit(s) == s # <<>> /\ \A k \in 1..Len(s) : s[k] \in Digits

\* s.split(":")
RECURSIVE Split(_, _)
Split(s, sep) ==
    IF \E k \in 1..Len(s) : s[k] = sep
    THEN LET k == CHOOSE k \in 1..Len(s) : s[k] = sep /\ \A j \in 1..(k - 1) : s[j] # sep
         IN  <<SubSeq(s, 1, k - 1)>> \o Split(SubSeq(s, k + 1, Len(s)), sep)
    ELSE <<s>>

RECURSIVE DigitsToNat(_)
DigitsToNat(ds) ==
    IF ds = <<>> THEN 0
    ELSE 10 * DigitsToNat(SubSeq(ds, 1, Len(ds) - 1)) + DigitVal(ds[Len(ds)])

Ok(v) == [ok |-> TRUE, val |-> v]
ValueError == [ok |-> FALSE, val |-> 0]

\* int(str): surrounding whitespace, an optional sign, at least one digit
PyInt(str) ==
    LET t == Strip(str)
        signed == t # <<>> /\ Head(t) \in {"-", "+"}
        ds == IF signed THEN Tail(t) ELSE t
    IN  IF ~IsDigit(ds) THEN ValueError
        ELSE IF signed /\ Head(t) = "-" THEN Ok(0 - DigitsToNat(ds))
        ELSE Ok(DigitsToNat(ds))

\* int("".join([c for c in s if c.isdigit()]))
DigitsIn(s) == PyInt(SelectSeq(s, LAMBDA c : c \in Digits))

Scale(r, k) == IF r.ok THEN Ok(r.val * k) ELSE r

--------------------------------------------------------------------------
(* parse_duration_to_seconds *)

parse_duration_to_seconds(s0) ==
    LET s == Lower(Strip(s0))
    IN  IF \E k \in 1..Len(s) : s[k] = ":"
        THEN LET parts == Split(s, ":")
             IN  IF Len(parts) # 3 THEN ValueError
                 ELSE LET h == PyInt(parts[1])
                          m == PyInt(parts[2])
                          sec == PyInt(parts[3])
                      IN  IF h.ok /\ m.ok /\ sec.ok
                          THEN Ok(h.val * 3600 + m.val * 60 + sec.val)
                          ELSE ValueError
        ELSE IF EndsWith(s, <<"s">>) \/ EndsWith(s, <<" ", "s", "e", "c">>)
             THEN DigitsIn(s)
        ELSE IF EndsWith(s, <<"m">>) \/ EndsWith(s, <<" ", "m", "i", "n">>)
             THEN Scale(DigitsIn(s), 60)
        ELSE IF \/ EndsWith(s, <<"h">>)
                \/ EndsWith(s, <<" ", "h", "r">>)
                \/ EndsWith(s, <<" ", "h", "o", "u", "r">>)
             THEN Scale(DigitsIn(s), 3600)
        ELSE IF IsDigit(s) THEN Ok(DigitsToNat(s))
        ELSE ValueError

\* the characters the exhaustive inputs are built from
Alphabet == {"0", "1", ":", "-", "s", "m", "h", " "}

\* every string over S of at most n characters
SeqsUpTo(S, n) == UNION {[1..k -> S] : k \in 0..n}

\* the documented forms and their near misses
Examples ==
    { <<"9", "0", "s">>, <<"9", "0", " ", "s", "e", "c">>, <<"9", "0", "s", "e", "c">>,
      <<"3", "0", "m">>, <<"3", "0", " ", "m", "i", "n">>, <<"3", "0", "m", "i", "n">>,
      <<"2", "h">>, <<"2", " ", "h", "r">>, <<"2", " ", "h", "o", "u", "r">>,
      <<"2", "h", "r">>, <<"2", "h", "o", "u", "r">>,
      <<"0", "1", ":", "3", "0", ":", "0", "0">>, <<"5", "4", "0", "0">>,
      <<"a", "b", "c">>, <<"3", "x", "m">>, <<"2", "H">>, <<" ", "9", "0", "S", " ">>,
      <<"-", "1", ":", "0", "0", ":", "0", "0">>, <<"+", "1", ":", "0", ":", "0">>,
      <<"1", ".", "5", "h">>, <<"1", ":", "2", ":", "3", "s">> }

\* the expressions tried: every string over Alphabet of at most n characters,
\* and the examples
Inputs(n) == SeqsUpTo(Alphabet, n) \cup Examples

--------------------------------------------------------------------------
(* The file system seen by split_video *)

\* source files that exist; "nofile" is a path where nothing exists
SourceFiles == {"v1"}
InputPaths == SourceFiles \cup {"nofile"}

\* --output-dir: "" is the default None
RootArgs == {"", "out"}

\* lines 75-76: output_root, or <dirname>/<base_name>_split
OutputRoot(input_path, output_root) ==
    IF output_root = "" THEN <<"split_of", input_path>> ELSE <<"dir", output_root>>

\* most parts a call makes when max_part_seconds >= 1
MaxIndex == MaxHalves \div 2
Index == 1..MaxIndex

\* part_dir of part k under a root; k = 0 is the root itself
PartDir(root, k) == <<root, k>>

AbsentFile == [kind |-> "absent", source |-> "", ss |-> 0, t |-> 0]
PartialFile == [kind |-> "partial", source |-> "", ss |-> 0, t |-> 0]
\* what ffmpeg -ss start -i input -t duration -c copy leaves when it exits 0
CopiedFile(input_path, ss, t) == [kind |-> "complete", source |-> input_path, ss |-> ss, t |-> t]

NoInfo == [index |-> 0, start_seconds |-> 0, duration_seconds |-> 0,
           end_seconds |-> 0, source_file |-> ""]

\* media and meta hold <<root, index, content>> for the files that exist
NoMedia == {}
NoMeta == {}

At(files, root, k, none) ==
    IF \E e \in files : e[1] = root /\ e[2] = k
    THEN (CHOOSE e \in files : e[1] = root /\ e[2] = k)[3]
    ELSE none

FileAt(files, root, k) == At(files, root, k, AbsentFile)
InfoAt(files, root, k) == At(files, root, k, NoInfo)

Put(files, root, k, content, none) ==
    {e \in files : ~(e[1] = root /\ e[2] = k)}
        \cup (IF content = none THEN {} ELSE {<<root, k, content>>})

\* os.path.exists(out_file)
Exists(root, k) == FileAt(media, root, k).kind # "absent"

--------------------------------------------------------------------------
(* split_video: planning arithmetic *)

\* math.floor(total_seconds) of a probe result in half seconds
FloorSeconds(halves) == halves \div 2

\* math.ceil(total_seconds_int / max_part_seconds), max_part_seconds # 0
NumParts(total_seconds_int, max_part_seconds) ==
    IF max_part_seconds > 0
    THEN (total_seconds_int + max_part_seconds - 1) \div max_part_seconds
    ELSE 0 - (total_seconds_int \div (0 - max_part_seconds))

\* line 87
Start(k, max_part_seconds) == k * max_part_seconds

\* line 89 without the comparison
DurationAlwaysMax(remaining, max_part_seconds) == max_part_seconds

\* line 89
Duration(remaining, max_part_seconds) ==
    IF remaining > max_part_seconds THEN max_part_seconds ELSE remaining

\* lines 96-102, for loop value k
Info(k) ==
    LET st == Start(k, rp.max)
        du == Duration(total - st, rp.max)
    IN  [index |-> k + 1, start_seconds |-> st, duration_seconds |-> du,
         end_seconds |-> st + du, source_file |-> rp.input]

--------------------------------------------------------------------------
(* split_video and main: calls *)

NoParams == [input |-> "", max |-> 0, root |-> <<"", "">>,
             overwrite |-> FALSE, dry_run |-> FALSE]
NoOutcome == [kind |-> "none", index |-> 0, num_parts |-> 0, outputs |-> <<>>]

\* --max values main is given
MaxArgs == { <<"1">>, <<"0", ":", "0", ":", "2">>, <<"0">>,
             <<"-", "1", ":", "0", ":", "0">>, <<"x">> }

\* max_part_seconds values split_video is called with by other code
DirectMax == {-1, 0, 1, 2}

Ended == pc \in {"idle", "return", "exit", "raise"}

\* a call can start: nothing is running
CanCall == Ended /\ runs < MaxRuns

\* bookkeeping at the start of any call
Begin(params) ==
    /\ runs' = runs + 1
    /\ rp' = params
    /\ prev' = [rp |-> rp, pc |-> pc, outcome |-> outcome]
    /\ start' = [dirs |-> dirs, media |-> media, meta |-> meta]
    /\ calls' = <<>>
    /\ segs' = <<>>
    /\ created' = <<>>
    /\ i' = 0

\* a call that ends before split_video has read its other parameters: only
\* the input path and the maximum it got as far as reading are recorded
Abort(how, what, input, max) ==
    /\ Begin([NoParams EXCEPT !.input = input, !.max = max])
    /\ pc' = how
    /\ outcome' = [kind |-> what, index |-> 0, num_parts |-> 0, outputs |-> <<>>]
    /\ total' = 0
    /\ num_parts' = 0
    /\ UNCHANGED <<probe, dirs, media, meta>>

\* lines 70-85 when nothing raises: probe, plan, make the output root
Enter(params) ==
    /\ Begin(params)
    /\ total' = FloorSeconds(probe[params.input])
    /\ num_parts' = NumParts(total', params.max)
    /\ dirs' = dirs \cup {PartDir(params.root, 0)}
    /\ pc' = "loop"
    /\ outcome' = NoOutcome
    /\ UNCHANGED <<probe, media, meta>>

\* lines 69-85: ffprobe fails on a missing file (line 58), a zero maximum
\* divides by zero (line 72)
split_video(input, max) ==
    IF input \notin SourceFiles THEN Abort("raise", "RuntimeError", input, 0)
    ELSE IF max = 0 THEN Abort("raise", "ZeroDivisionError", input, max)
    ELSE \E root \in RootArgs, overwrite \in BOOLEAN, dry_run \in BOOLEAN :
            Enter([input |-> input, max |-> max, root |-> OutputRoot(input, root),
                   overwrite |-> overwrite, dry_run |-> dry_run])

\* split_video called by other code
SplitVideo ==
    /\ CanCall
    /\ \E input \in InputPaths, max \in DirectMax : split_video(input, max)

\* main, lines 161-186, up to the call of split_video
Main ==
    /\ CanCall
    /\ \E input \in InputPaths :
          IF input \notin SourceFiles
          THEN Abort("exit", "no input", input, 0)
          ELSE \E arg \in MaxArgs :
                  LET max_seconds == parse_duration_to_seconds(arg)
                  IN  IF ~max_seconds.ok
                      THEN Abort("exit", "bad duration", input, 0)
                      ELSE IF max_seconds.val <= 0
                      THEN Abort("exit", "not positive", input, max_seconds.val)
                      ELSE split_video(input, max_seconds.val)

--------------------------------------------------------------------------
(* split_video: one pass of the loop, lines 86-141 *)

InLoop == pc = "loop" /\ i < num_parts

\* line 92: ensure_dir(part_dir), also in a dry run
EnsurePartDir == dirs' = dirs \cup {PartDir(rp.root, i + 1)}

\* lines 138-139 and 117-118
WriteInfo == meta' = Put(meta, rp.root, i + 1, Info(i), NoInfo)

\* line 108 with the flag inverted
SkipsWhenOverwriting == Exists(rp.root, i + 1) /\ rp.overwrite

\* line 107 with line 108: the existing output is kept and the part skipped
Skips == Exists(rp.root, i + 1) /\ ~rp.overwrite

\* lines 104-105
DryPass ==
    /\ InLoop
    /\ rp.dry_run
    /\ EnsurePartDir
    /\ segs' = Append(segs, Info(i))
    /\ i' = i + 1
    /\ UNCHANGED <<probe, media, meta, pc, rp, total, num_parts, created, calls,
                   outcome, runs, prev, start>>

\* lines 113-119 without lines 117-118
SkipPassKeepsInfo ==
    /\ InLoop
    /\ ~rp.dry_run
    /\ Skips
    /\ EnsurePartDir
    /\ segs' = Append(segs, Info(i))
    /\ created' = Append(created, <<rp.root, i + 1>>)
    /\ i' = i + 1
    /\ UNCHANGED <<probe, media, meta, pc, rp, total, num_parts, calls, outcome,
                   runs, prev, start>>

\* lines 113-119
SkipPass ==
    /\ InLoop
    /\ ~rp.dry_run
    /\ Skips
    /\ EnsurePartDir
    /\ segs' = Append(segs, Info(i))
    /\ created' = Append(created, <<rp.root, i + 1>>)
    /\ WriteInfo
    /\ i' = i + 1
    /\ UNCHANGED <<probe, media, pc, rp, total, num_parts, calls, outcome, runs,
                   prev, start>>

\* lines 108-112 then 122-141 with returncode 0
TranscodePass ==
    /\ InLoop
    /\ ~rp.dry_run
    /\ ~Skips
    /\ EnsurePartDir
    /\ segs' = Append(segs, Info(i))
    /\ calls' = Append(calls, i + 1)
    /\ media' = Put(media, rp.root, i + 1,
                     CopiedFile(rp.input, Info(i).start_seconds, Info(i).duration_seconds),
                     AbsentFile)
    /\ WriteInfo
    /\ created' = Append(created, <<rp.root, i + 1>>)
    /\ i' = i + 1
    /\ UNCHANGED <<probe, pc, rp, total, num_parts, outcome, runs, prev, start>>

\* what a failed ffmpeg can leave at out_file: nothing or a partial file, or
\* the old file when os.remove raised (lines 111-112) and ffmpeg never opened it
LeftByFailure(old) == {PartialFile} \cup {AbsentFile} \cup {old}

\* lines 108-112 then 122-135 with returncode # 0, without line 136
TranscodeFailGoesOn ==
    /\ InLoop
    /\ ~rp.dry_run
    /\ ~Skips
    /\ EnsurePartDir
    /\ segs' = Append(segs, Info(i))
    /\ calls' = Append(calls, i + 1)
    /\ \E left \in LeftByFailure(FileAt(media, rp.root, i + 1)) :
          media' = Put(media, rp.root, i + 1, left, AbsentFile)
    /\ outcome' = [kind |-> "part failed", index |-> i + 1, num_parts |-> 0,
                   outputs |-> <<>>]
    /\ WriteInfo
    /\ created' = Append(created, <<rp.root, i + 1>>)
    /\ i' = i + 1
    /\ UNCHANGED <<probe, pc, rp, total, num_parts, runs, prev, start>>

\* lines 108-112 then 122-136 with returncode # 0: sys.exit(1)
TranscodeFail ==
    /\ InLoop
    /\ ~rp.dry_run
    /\ ~Skips
    /\ EnsurePartDir
    /\ segs' = Append(segs, Info(i))
    /\ calls' = Append(calls, i + 1)
    /\ \E left \in LeftByFailure(FileAt(media, rp.root, i + 1)) :
          media' = Put(media, rp.root, i + 1, left, AbsentFile)
    /\ pc' = "exit"
    /\ outcome' = [kind |-> "part failed", index |-> i + 1, num_parts |-> 0,
                   outputs |-> <<>>]
    /\ UNCHANGED <<probe, meta, rp, i, total, num_parts, created, runs, prev, start>>

\* lines 143-150
Return ==
    /\ pc = "loop"
    /\ i >= num_parts
    /\ pc' = "return"
    /\ outcome' = [kind |-> "report", index |-> 0, num_parts |-> num_parts,
                   outputs |-> created]
    /\ UNCHANGED <<probe, dirs, media, meta, rp, i, total, num_parts, created,
                   calls, segs, runs, prev, start>>

--------------------------------------------------------------------------
(* trim_audio, tools/audio_trim.py *)

\* sample values load_audio_any can return
Samples == {0, 2}

RECURSIVE Peak(_)
\* np.max(np.abs(audio))
Peak(audio) ==
    IF audio = <<>> THEN 0
    ELSE LET rest == Peak(Tail(audio))
         IN  IF Head(audio) > rest THEN Head(audio) ELSE rest

\* line 66: int(max_seconds * (target_sr or sr))
MaxSampleCount(max_seconds, rate) == max_seconds * rate

\* lines 69-70
Trimmed(audio, max_samples) ==
    IF Len(audio) > max_samples THEN SubSeq(audio, 1, max_samples) ELSE audio

\* lines 76-79: the gain as <<numerator, denominator>>; 0.95 / peak is <<95, 100 * peak>>
Gain(audio, normalize) ==
    IF normalize /\ Peak(audio) > 0 THEN <<95, 100 * Peak(audio)>> ELSE <<1, 1>>

NoFile == [kind |-> "absent", samples |-> <<>>, gain |-> <<1, 1>>]
StaleFile == [kind |-> "stale", samples |-> <<>>, gain |-> <<1, 1>>]
TornFile == [kind |-> "partial", samples |-> <<>>, gain |-> <<1, 1>>]
OriginalFile(audio) == [kind |-> "original", samples |-> audio, gain |-> <<1, 1>>]

\* line 51, what sf.write(path, audio, sr, subtype='PCM_16') stores
save_wav_audio(audio, normalize, max_samples) ==
    LET cut == Trimmed(audio, max_samples)
    IN  [kind |-> "PCM_16", samples |-> cut, gain |-> Gain(cut, normalize)]

TrimArgs ==
    [ext : {".wav", ".mp3"}, max_seconds : 0..2, normalize : BOOLEAN,
     audio : SeqsUpTo(Samples, MaxSamples), rate : {1, 2}]

InitTrim ==
    /\ targs \in TrimArgs
    /\ tfs \in [input : {OriginalFile(targs.audio)}, tmp : {NoFile, StaleFile},
                old : {NoFile, StaleFile}]
    /\ tpc = "call"
    /\ tfailed = {}

Raised(step) == tfailed' = tfailed \cup {step}

\* lines 55-65, when the call ends there
TrimEarly ==
    /\ tpc = "call"
    /\ \/ /\ targs.max_seconds <= 0
          /\ tpc' = "raise"
       \/ /\ targs.max_seconds > 0
          /\ targs.ext = ".mp3"
          /\ tpc' = "skip"
       \/ /\ targs.max_seconds > 0
          /\ targs.ext # ".mp3"
          /\ tpc' = "raise"
    /\ UNCHANGED <<targs, tfs, tfailed>>

\* lines 55-82, when load_audio_any returns
TrimLoad ==
    /\ tpc = "call"
    /\ targs.max_seconds > 0
    /\ targs.ext # ".mp3"
    /\ tpc' = "tmp"
    /\ UNCHANGED <<targs, tfs, tfailed>>

\* lines 85-86, os.remove(tmp_path) succeeds
RemoveStaleOk ==
    /\ tpc = "tmp"
    /\ tfs.tmp.kind # "absent"
    /\ tfs' = [tfs EXCEPT !.tmp = NoFile]
    /\ UNCHANGED <<tpc, targs, tfailed>>

\* lines 85-86 and 89-91, os.remove(tmp_path) raises
RemoveStaleFail ==
    /\ tpc = "tmp"
    /\ tfs.tmp.kind # "absent"
    /\ Raised("remove stale")
    /\ tpc' = "return"
    /\ UNCHANGED <<targs, tfs>>

\* lines 87-88
SaveOk ==
    /\ tpc = "tmp"
    /\ tfs.tmp.kind = "absent"
    /\ tfs' = [tfs EXCEPT !.tmp = save_wav_audio(targs.audio, targs.normalize,
                                    MaxSampleCount(targs.max_seconds, targs.rate))]
    /\ tpc' = "rename"
    /\ UNCHANGED <<targs, tfailed>>

\* lines 87 and 89-91: sf.write raises before or after creating the file
SaveFail ==
    /\ tpc = "tmp"
    /\ tfs.tmp.kind = "absent"
    /\ \E left \in {NoFile, TornFile} : tfs' = [tfs EXCEPT !.tmp = left]
    /\ Raised("save")
    /\ tpc' = "return"
    /\ UNCHANGED targs

\* lines 96-97 with the original removed, not renamed
RenameDropsOriginal ==
    /\ tpc = "rename"
    /\ tfs' = [tfs EXCEPT !.input = NoFile]
    /\ tpc' = "replace"
    /\ UNCHANGED <<targs, tfailed>>

\* lines 96-97: os.replace(input_path, old_path)
RenameOk ==
    /\ tpc = "rename"
    /\ tfs' = [tfs EXCEPT !.old = tfs.input, !.input = NoFile]
    /\ tpc' = "replace"
    /\ UNCHANGED <<targs, tfailed>>

\* lines 96 and 98-100
RenameFail ==
    /\ tpc = "rename"
    /\ Raised("rename")
    /\ tpc' = "cleanup"
    /\ UNCHANGED <<targs, tfs>>

\* lines 110-111: os.replace(tmp_path, input_path)
ReplaceOk ==
    /\ tpc = "replace"
    /\ tfs' = [tfs EXCEPT !.input = tfs.tmp, !.tmp = NoFile]
    /\ tpc' = "return"
    /\ UNCHANGED <<targs, tfailed>>

\* lines 110 and 112-113
ReplaceFail ==
    /\ tpc = "replace"
    /\ Raised("replace")
    /\ tpc' = "rollback"
    /\ UNCHANGED <<targs, tfs>>

\* lines 115-117: os.replace(old_path, input_path)
RollbackOk ==
    /\ tpc = "rollback"
    /\ IF tfs.old.kind # "absent"
       THEN tfs' = [tfs EXCEPT !.input = tfs.old, !.old = NoFile]
       ELSE UNCHANGED tfs
    /\ tpc' = "cleanup"
    /\ UNCHANGED <<targs, tfailed>>

\* lines 115-119
RollbackFail ==
    /\ tpc = "rollback"
    /\ tfs.old.kind # "absent"
    /\ Raised("rollback")
    /\ tpc' = "cleanup"
    /\ UNCHANGED <<targs, tfs>>

\* lines 101-106 and 121-125, os.remove(tmp_path) succeeds or there is no file
CleanupOk ==
    /\ tpc = "cleanup"
    /\ tfs' = [tfs EXCEPT !.tmp = NoFile]
    /\ tpc' = "return"
    /\ UNCHANGED <<targs, tfailed>>

\* lines 101-106 and 121-125, os.remove(tmp_path) raises
CleanupFail ==
    /\ tpc = "cleanup"
    /\ tfs.tmp.kind # "absent"
    /\ Raised("cleanup")
    /\ tpc' = "return"
    /\ UNCHANGED <<targs, tfs>>

SplitAtRest ==
    /\ dirs = {} /\ media = NoMedia /\ meta = NoMeta /\ pc = "idle"
    /\ rp = NoParams /\ i = 0 /\ total = 0 /\ num_parts = 0 /\ created = <<>>
    /\ calls = <<>> /\ segs = <<>> /\ outcome = NoOutcome /\ runs = 0
    /\ prev = [rp |-> NoParams, pc |-> "idle", outcome |-> NoOutcome]
    /\ start = [dirs |-> {}, media |-> NoMedia, meta |-> NoMeta]

TrimAtRest ==
    /\ tpc = "idle" /\ tfailed = {}
    /\ targs = [ext |-> "", max_seconds |-> 0, normalize |-> FALSE, audio |-> <<>>,
                rate |-> 1]
    /\ tfs = [input |-> NoFile, tmp |-> NoFile, old |-> NoFile]

ParseAtRest ==
    /\ expr = <<>> /\ parsed = <<>>

Init ==
    /\ probe \in [SourceFiles -> 0..MaxHalves]
    /\ SplitAtRest
    /\ ParseAtRest
    /\ TrimAtRest

Next ==
    \/ (Main /\ UNCHANGED <<parseVars, trimVars>>)
    \/ (SplitVideo /\ UNCHANGED <<parseVars, trimVars>>)
    \/ (DryPass /\ UNCHANGED <<parseVars, trimVars>>)
    \/ (SkipPass /\ UNCHANGED <<parseVars, trimVars>>)
    \/ (TranscodePass /\ UNCHANGED <<parseVars, trimVars>>)
    \/ (TranscodeFail /\ UNCHANGED <<parseVars, trimVars>>)
    \/ (Return /\ UNCHANGED <<parseVars, trimVars>>)

Spec == Init /\ [][Next]_vars

--------------------------------------------------------------------------
(* Specification of parse_duration_to_seconds alone *)

InitParse ==
    /\ expr \in Inputs(MaxLen)
    /\ parsed = <<>>
    /\ probe = [f \in SourceFiles |-> 0]
    /\ SplitAtRest
    /\ TrimAtRest

Parse ==
    /\ parsed = <<>>
    /\ parsed' = <<parse_duration_to_seconds(expr)>>
    /\ UNCHANGED <<expr, splitVars, trimVars>>

NextParse == Parse

SpecParse == InitParse /\ [][NextParse]_vars

--------------------------------------------------------------------------
(* Specification of trim_audio alone *)

InitTrimAudio ==
    /\ InitTrim
    /\ probe = [f \in SourceFiles |-> 0]
    /\ SplitAtRest
    /\ ParseAtRest

NextTrim ==
    \/ (TrimEarly /\ UNCHANGED <<parseVars, splitVars>>)
    \/ (TrimLoad /\ UNCHANGED <<parseVars, splitVars>>)
    \/ (RemoveStaleOk /\ UNCHANGED <<parseVars, splitVars>>)
    \/ (RemoveStaleFail /\ UNCHANGED <<parseVars, splitVars>>)
    \/ (SaveOk /\ UNCHANGED <<parseVars, splitVars>>)
    \/ (SaveFail /\ UNCHANGED <<parseVars, splitVars>>)
    \/ (RenameOk /\ UNCHANGED <<parseVars, splitVars>>)
    \/ (RenameFail /\ UNCHANGED <<parseVars, splitVars>>)
    \/ (ReplaceOk /\ UNCHANGED <<parseVars, splitVars>>)
    \/ (ReplaceFail /\ UNCHANGED <<parseVars, splitVars>>)
    \/ (RollbackOk /\ UNCHANGED <<parseVars, splitVars>>)
    \/ (RollbackFail /\ UNCHANGED <<parseVars, splitVars>>)
    \/ (CleanupOk /\ UNCHANGED <<parseVars, splitVars>>)
    \/ (CleanupFail /\ UNCHANGED <<parseVars, splitVars>>)

SpecTrim == InitTrimAudio /\ [][NextTrim]_vars

--------------------------------------------------------------------------
(* Properties of the segmentation, materialization and run report *)

RECURSIVE SumDurations(_)
SumDurations(ss) ==
    IF ss = <<>> THEN 0 ELSE Head(ss).duration_seconds + SumDurations(Tail(ss))

Last(ss) == ss[Len(ss)]

\* the indices of a sequence of part numbers
Strictly(ss) == \A a, b \in 1..Len(ss) : a < b => ss[a] < ss[b]

Planned == 1..Len(segs)

\* C1: when split_video has run its loop to the end with max_part_seconds > 0,
\* the segments it computed partition [0, total_seconds): numbered 1, 2, ...,
\* the first starts at 0, each starts where the one before ends, every duration
\* is > 0 and <= max_part_seconds, the last ends at total_seconds, the durations
\* sum to total_seconds, and there are ceil(total_seconds / max_part_seconds)
\* of them (none when total_seconds = 0).
C1_Partition ==
    (pc = "return" /\ rp.max > 0) =>
        /\ Len(segs) = num_parts
        /\ (Len(segs) - 1) * rp.max < total \/ (total = 0 /\ Len(segs) = 0)
        /\ Len(segs) * rp.max >= total
        /\ \A k \in Planned :
              /\ segs[k].index = k
              /\ segs[k].start_seconds = (IF k = 1 THEN 0 ELSE segs[k - 1].end_seconds)
              /\ segs[k].duration_seconds > 0
              /\ segs[k].duration_seconds <= rp.max
              /\ segs[k].end_seconds = segs[k].start_seconds + segs[k].duration_seconds
        /\ (segs # <<>> => Last(segs).end_seconds = total)
        /\ SumDurations(segs) = total

\* a run of two segments whose last one is shorter than the maximum
C1_WitnessShortLast ==
    /\ pc = "return" /\ rp.max = 2 /\ total = 3 /\ Len(segs) = 2
    /\ Last(segs).duration_seconds = 1

SameRequest ==
    /\ prev.rp.input = rp.input
    /\ prev.rp.max = rp.max
    /\ prev.rp.root = rp.root

\* the current call repeats a call that returned, now without overwrite
Repeats ==
    /\ runs > 0
    /\ prev.pc = "return"
    /\ ~prev.rp.dry_run
    /\ SameRequest
    /\ ~rp.overwrite
    /\ ~rp.dry_run

\* C2: a call that repeats a completed non-dry call on the same source, maximum
\* and output root, with overwrite and dry-run off, never runs ffmpeg, never
\* fails, leaves every media file as it was, skips every part, and returns the
\* list of outputs the first call returned.
C2_Idempotent ==
    Repeats =>
        /\ pc \in {"loop", "return"}
        /\ calls = <<>>
        /\ media = start.media
        /\ Len(created) = Len(segs)
        /\ (pc = "return" =>
              /\ outcome.outputs = prev.outcome.outputs
              /\ Len(outcome.outputs) = num_parts \/ num_parts < 0)

C2_Witness ==
    /\ Repeats /\ pc = "return" /\ Len(outcome.outputs) >= 2
    /\ Len(prev.outcome.outputs) >= 2

\* the part whose transcode failed in the current call
Failed == outcome.kind = "part failed"

\* C3: ffmpeg is run on parts in strictly ascending order; when it fails on part
\* k the call has ended by sys.exit, k is the last part ffmpeg was run on and
\* the last part computed, nothing of a part after k (directory, output,
\* metadata) was touched, the metadata of k was not written, and every part
\* before k still has its output and the metadata this call wrote.
C3_FailFast ==
    /\ Strictly(calls)
    /\ Failed =>
          LET k == outcome.index
          IN  /\ pc = "exit"
              /\ calls # <<>> /\ Last(calls) = k
              /\ Len(segs) = k
              /\ \A j \in Index :
                    j > k =>
                       /\ FileAt(media, rp.root, j) = FileAt(start.media, rp.root, j)
                       /\ InfoAt(meta, rp.root, j) = InfoAt(start.meta, rp.root, j)
                       /\ (PartDir(rp.root, j) \in dirs
                              <=> PartDir(rp.root, j) \in start.dirs)
              /\ InfoAt(meta, rp.root, k) = InfoAt(start.meta, rp.root, k)
              /\ \A j \in 1..(k - 1) :
                    /\ Exists(rp.root, j)
                    /\ InfoAt(meta, rp.root, j) = segs[j]
                    /\ created[j] = <<rp.root, j>>

\* part 2 of 3 fails after part 1 was produced
C3_Witness ==
    /\ Failed /\ outcome.index = 2 /\ num_parts = 3 /\ calls = <<1, 2>>
    /\ FileAt(media, rp.root, 1).kind = "complete"

\* C4 as claimed: a call with dry_run=True leaves directories, media outputs and
\* metadata files as they were and never runs ffmpeg.
C4_DryRunTouchesNothing ==
    (runs > 0 /\ rp.dry_run) =>
        /\ dirs = start.dirs
        /\ media = start.media
        /\ meta = start.meta
        /\ calls = <<>>

\* C6 as claimed: a request with max_part_seconds <= 0 ends in an error, computes
\* no segment, never runs ffmpeg and returns no report.
C6_NonPositiveRejected ==
    (runs > 0 /\ rp.max <= 0 /\ Ended) =>
        /\ pc \in {"exit", "raise"}
        /\ segs = <<>>
        /\ calls = <<>>

\* the descriptor of part k in the plan of the current call
Descriptor(k) ==
    LET st == (k - 1) * rp.max
        du == IF total - st < rp.max THEN total - st ELSE rp.max
    IN  [index |-> k, start_seconds |-> st, duration_seconds |-> du,
         end_seconds |-> st + du, source_file |-> rp.input]

\* C7: when a non-dry call returns, every planned part has an info.json holding
\* the descriptor of the current plan, whether the part was transcoded or its
\* existing output was skipped.
C7_MetadataForEveryPart ==
    (pc = "return" /\ ~rp.dry_run /\ rp.max > 0) =>
        /\ Len(segs) = num_parts
        /\ \A k \in 1..num_parts :
              /\ Exists(rp.root, k)
              /\ InfoAt(meta, rp.root, k) = Descriptor(k)

\* a skipped part whose older, different metadata was replaced
C7_Witness ==
    /\ pc = "return" /\ ~rp.dry_run /\ rp.max > 0
    /\ \E k \in 1..num_parts :
          /\ \A c \in 1..Len(calls) : calls[c] # k
          /\ InfoAt(start.meta, rp.root, k) # NoInfo
          /\ InfoAt(start.meta, rp.root, k) # InfoAt(meta, rp.root, k)

\* C8 as claimed, for max_part_seconds > 0: the report's number of segments is
\* the number of planned segments and its outputs are the planned parts' paths,
\* one each, in ascending order, dry run or not.
C8_ReportListsPlan ==
    (pc = "return" /\ rp.max > 0) =>
        /\ outcome.num_parts = Len(segs)
        /\ outcome.outputs = [k \in Planned |-> <<rp.root, k>>]

\* the current call retries a call that stopped at a failed part
Retries ==
    /\ runs > 0
    /\ prev.pc = "exit"
    /\ prev.outcome.kind = "part failed"
    /\ ~prev.rp.dry_run
    /\ SameRequest
    /\ ~rp.overwrite
    /\ ~rp.dry_run

\* C9 as claimed: a retry that returns has skipped exactly the parts whose
\* outputs were complete when it began, has run ffmpeg on the failed part and on
\* every other part, and leaves every planned part with a complete output.
C9_SafeRetry ==
    (Retries /\ pc = "return") =>
        /\ \A k \in 1..num_parts :
              (\E c \in 1..Len(calls) : calls[c] = k)
                  <=> FileAt(start.media, rp.root, k).kind # "complete"
        /\ \E c \in 1..Len(calls) : calls[c] = prev.outcome.index
        /\ \A k \in 1..num_parts : FileAt(media, rp.root, k).kind = "complete"

--------------------------------------------------------------------------
(* Properties of parse_duration_to_seconds *)

SecondsSuffixes == {<<"s">>, <<"s", "e", "c">>}
MinutesSuffixes == {<<"m">>, <<"m", "i", "n">>}
HoursSuffixes == {<<"h">>, <<"h", "r">>, <<"h", "o", "u", "r">>}

\* digits followed by one of the suffixes; characters that are neither are ignored
Suffixed(s, sufs) ==
    \E suf \in sufs :
        /\ EndsWith(s, suf)
        /\ \E k \in 1..(Len(s) - Len(suf)) : s[k] \in Digits

DigitsBefore(s, sufs) ==
    LET suf == CHOOSE suf \in sufs :
                  /\ EndsWith(s, suf)
                  /\ \E k \in 1..(Len(s) - Len(suf)) : s[k] \in Digits
    IN  DigitsToNat(SelectSeq(SubSeq(s, 1, Len(s) - Len(suf)), LAMBDA c : c \in Digits))

\* a component of H:M:S: an integer literal that is not negative
Component(str) == PyInt(str).ok /\ PyInt(str).val >= 0

\* the grammar of the duration expression, in precedence order, read leniently:
\* characters around the digits are ignored
GrammarValue(s0) ==
    LET s == Lower(Strip(s0))
        parts == Split(s, ":")
    IN  IF Len(parts) = 3 /\ \A k \in 1..3 : Component(parts[k])
        THEN Ok(PyInt(parts[1]).val * 3600 + PyInt(parts[2]).val * 60
                + PyInt(parts[3]).val)
        ELSE IF Suffixed(s, SecondsSuffixes) THEN Ok(DigitsBefore(s, SecondsSuffixes))
        ELSE IF Suffixed(s, MinutesSuffixes) THEN Ok(DigitsBefore(s, MinutesSuffixes) * 60)
        ELSE IF Suffixed(s, HoursSuffixes) THEN Ok(DigitsBefore(s, HoursSuffixes) * 3600)
        ELSE IF IsDigit(s) THEN Ok(DigitsToNat(s))
        ELSE ValueError

\* C5 as claimed, in the direction a returned value tests: whatever the parser
\* returns is what the grammar gives for the expression (so an expression that
\* matches no grammar fails), and it is never negative.
C5_ParserIsGrammar ==
    (parsed # <<>> /\ parsed[1].ok) =>
        /\ parsed[1] = GrammarValue(expr)
        /\ parsed[1].val >= 0

--------------------------------------------------------------------------
(* Properties of trim_audio *)

Trimming == tpc \notin {"idle", "call", "raise", "skip"}

OriginalKept ==
    \/ tfs.input.kind = "original"
    \/ tfs.old.kind = "original"

\* C10 as claimed: while trim_audio works on a non-mp3 input the original audio
\* is at input_path or at the *_old path, and when it returns input_path holds
\* the original (a step failed) or the trimmed audio (no step failed) and no
\* *_tmp file is left.
C10_NeverLosesOriginal ==
    Trimming =>
        /\ OriginalKept
        /\ tpc = "return" =>
              /\ tfs.tmp.kind = "absent"
              /\ IF tfailed = {} THEN tfs.input.kind = "PCM_16"
                                 ELSE tfs.input.kind = "original"

\* C10 amended: the original audio is always at input_path or at the *_old path.
\* On return: with no failed step input_path holds the trimmed audio, *_old the
\* original, and no *_tmp file is left; with a failed step input_path holds the
\* original, unless both the replace and its rollback failed, when input_path is
\* absent and the original is at *_old; a *_tmp file is left only when removing
\* the stale one, writing it, or cleaning it up failed.
C10_OriginalSurvives ==
    Trimming =>
        /\ OriginalKept
        /\ tpc = "return" =>
              /\ tfailed = {} =>
                    /\ tfs.input = save_wav_audio(targs.audio, targs.normalize,
                                       MaxSampleCount(targs.max_seconds, targs.rate))
                    /\ tfs.old = OriginalFile(targs.audio)
                    /\ tfs.tmp.kind = "absent"
              /\ tfailed # {} =>
                    \/ tfs.input = OriginalFile(targs.audio)
                    \/ /\ tfs.input.kind = "absent"
                       /\ tfs.old = OriginalFile(targs.audio)
                       /\ {"replace", "rollback"} \subseteq tfailed
              /\ tfs.tmp.kind # "absent" =>
                    tfailed \cap {"remove stale", "save", "cleanup"} # {}

\* the replace failed and the rollback put the original back
C10_Witness ==
    /\ tpc = "return"
    /\ tfailed = {"replace"}
    /\ tfs.input = OriginalFile(targs.audio)
    /\ tfs.tmp.kind = "absent"

====
